---- MODULE Spec2Model ----
(***************************************************************************)
(* Model of report-uri-mpulse (src/index.js): the POST /report/:apiKey     *)
(* route, its lazy per-key mPulse initialisation, and handleReport, the    *)
(* normaliser that turns one browser report into one mPulse beacon.        *)
(*                                                                         *)
(* JavaScript strings that the code cuts or rewrites are sequences of      *)
(* one-character strings; JavaScript objects are functions from field      *)
(* names to values, a field being absent when it is not in the DOMAIN.     *)
(***************************************************************************)
EXTENDS Integers, Sequences, FiniteSets, TLC

\* ------------------------------------------------------------------------
\* Bounds of the model
\* ------------------------------------------------------------------------
MaxBatch == 2
MaxTime == 1

\* ------------------------------------------------------------------------
\* JavaScript string primitives used by handleReport
\* ------------------------------------------------------------------------

\* The text `${x}` gives for an undefined x.
UndefStr == <<"u", "n", "d", "e", "f", "i", "n", "e", "d">>

Http == <<"h", "t", "t", "p", ":", "/", "/">>
Https == <<"h", "t", "t", "p", "s", ":", "/", "/">>
Slash == <<"/">>
Space == <<" ">>

\* s.indexOf(p): 0-based position of the first occurrence of p, or -1.
IndexOf(s, p) ==
    LET hits == {i \in 0..(Len(s) - Len(p)) : SubSeq(s, i + 1, i + Len(p)) = p}
    IN  IF hits = {} THEN -1 ELSE CHOOSE i \in hits : \A j \in hits : i <= j

\* s.substring(0, k)
Substring0(s, k) == SubSeq(s, 1, k)

\* s.replace(p, r) with a string pattern: the first occurrence only, wherever
\* in s it is.
Replace(s, p, r) ==
    LET i == IndexOf(s, p)
    IN  IF i = -1 THEN s
        ELSE SubSeq(s, 1, i) \o r \o SubSeq(s, i + Len(p) + 1, Len(s))

\* s.trim(), for the blank the code can produce (a space).
RECURSIVE TrimLeft(_)
TrimLeft(s) == IF s # <<>> /\ Head(s) = " " THEN TrimLeft(Tail(s)) ELSE s

RECURSIVE TrimRight(_)
TrimRight(s) ==
    IF s # <<>> /\ s[Len(s)] = " " THEN TrimRight(SubSeq(s, 1, Len(s) - 1)) ELSE s

Trim(s) == TrimRight(TrimLeft(s))

Digits36 ==
    <<"0", "1", "2", "3", "4", "5", "6", "7", "8", "9", "a", "b", "c", "d",
      "e", "f", "g", "h", "i", "j", "k", "l", "m", "n", "o", "p", "q", "r",
      "s", "t", "u", "v", "w", "x", "y", "z">>

\* n.toString(radix) for a natural number n.
RECURSIVE NumToString(_, _)
NumToString(n, radix) ==
    IF n < radix THEN <<Digits36[n + 1]>>
    ELSE NumToString(n \div radix, radix) \o <<Digits36[(n % radix) + 1]>>

\* ------------------------------------------------------------------------
\* JavaScript objects
\* ------------------------------------------------------------------------

\* The object with no own field.
EmptyObj == [f \in {} |-> <<>>]

Has(obj, f) == f \in DOMAIN obj

\* obj[f] tested for truthiness, for a field holding a string: absent
\* (undefined) and the empty string are falsy.  A field holding an object is
\* truthy whenever it is present, which Has states.
TruthyStr(obj, f) == Has(obj, f) /\ obj[f] # <<>>

\* `${obj[f]}` for a field holding a string.
Tmpl(obj, f) == IF Has(obj, f) THEN obj[f] ELSE UndefStr

\* `${obj[f]}` for a field holding a number.
TmplNum(obj, f) == IF Has(obj, f) THEN NumToString(obj[f], 10) ELSE UndefStr

\* body.type, "" standing for a report without a type.
TypeOf(body) == IF Has(body, "type") THEN body["type"] ELSE ""

\* ------------------------------------------------------------------------
\* handleReport
\* ------------------------------------------------------------------------
INCLUDE_FULL_REPORT == FALSE

\* The record handleReport hands to JSURL.stringify, inside a one-element
\* array; f is undefined, so left out, while INCLUDE_FULL_REPORT is false.
\* data.err is modelled by this array: the encoder is the jsurl package.
ErrRecord(t, when, m) ==
    <<[v |-> 0, t |-> t, d |-> NumToString(when, 36), m |-> m]>>

\* let data = { "rt.tstart": when, "rt.end": when, ... }
BaseData(ua, ip, when) ==
    ("rt.tstart" :> when) @@ ("rt.end" :> when) @@
    ("http.initiator" :> "error") @@ ("ua" :> ua) @@ ("ip" :> ip)

\* What one call of handleReport does: it throws a TypeError before reaching
\* mPulse.sendBeacon, or it hands data to mPulse.sendBeacon.
Threw == [threw |-> TRUE, data |-> EmptyObj]
Sends(data) == [threw |-> FALSE, data |-> data]

\* data.u = x, x possibly undefined (the text "#undefined" stands for it).
Undefined == <<"#undefined">>
Get(obj, f) == IF Has(obj, f) THEN obj[f] ELSE Undefined

\* csp["blocked-uri"].replace("http://", "").replace("https://", ""), cut at
\* the first "/".
BlockedUri(csp) ==
    LET blockedUri == Replace(Replace(csp["blocked-uri"], Http, <<>>), Https, <<>>)
    IN  IF IndexOf(blockedUri, Slash) # -1
        THEN Substring0(blockedUri, IndexOf(blockedUri, Slash))
        ELSE blockedUri

\* csp["effective-directive"] || csp["violated-directive"]
HasDirective(csp) ==
    TruthyStr(csp, "effective-directive") \/ Has(csp, "violated-directive")

Directive(csp) ==
    LET directive == IF TruthyStr(csp, "effective-directive")
                     THEN csp["effective-directive"]
                     ELSE csp["violated-directive"]
    IN  IF IndexOf(directive, Space) # -1
        THEN Substring0(directive, IndexOf(directive, Space))
        ELSE directive

\* Content Security Policy (CSP)
HandleCsp(body, data, when) ==
    IF ~Has(body, "csp-report") /\ ~Has(body, "body") THEN Threw
    ELSE LET csp == IF Has(body, "csp-report") THEN body["csp-report"]
                    ELSE body["body"]
         IN  IF ~Has(csp, "blocked-uri") \/ ~HasDirective(csp) THEN Threw
             ELSE Sends(data @@ ("u" :> Get(csp, "document-uri")) @@
                        ("err" :> ErrRecord("Content Security Policy", when,
                                            Directive(csp) \o <<":", " ">> \o
                                            BlockedUri(csp))))

\* Network Error Logging (NEL)
HandleNel(body, data, when) ==
    IF ~Has(body, "body") THEN Threw
    ELSE LET nel == body["body"]
         IN  Sends(data @@ ("u" :> Get(body, "url")) @@
                   ("err" :> ErrRecord("Network Error Logging", when,
                                       Tmpl(nel, "type") \o Space \o
                                       Tmpl(nel, "protocol") \o Space \o
                                       Tmpl(nel, "method") \o Space \o
                                       TmplNum(nel, "status_code"))))

\* Reporting API: Deprecation
HandleDeprecation(body, data, when) ==
    IF ~Has(body, "body") THEN Threw
    ELSE LET deprecation == body["body"]
             removal == IF TruthyStr(deprecation, "anticipatedRemoval")
                        THEN deprecation["anticipatedRemoval"] ELSE <<>>
         IN  Sends(data @@ ("u" :> Get(body, "url")) @@
                   ("err" :> ErrRecord("Deprecation", when,
                                       Trim(Tmpl(deprecation, "id") \o Space \o
                                            removal))))

\* The kinds whose message is one field of body.body: Intervention, Crash,
\* Feature Policy Violation.
HandleOneField(body, data, when, title, field) ==
    IF ~Has(body, "body") THEN Threw
    ELSE Sends(data @@ ("u" :> Get(body, "url")) @@
               ("err" :> ErrRecord(title, when, Tmpl(body["body"], field))))

\* xss["request-url"].replace("http://", "").replace("https://", "")
RequestUrl(xss) ==
    Replace(Replace(xss["request-url"], Http, <<>>), Https, <<>>)

\* XSS
HandleXss(body, data, when) ==
    LET xss == body["xss-report"]
    IN  IF ~Has(xss, "request-url") THEN Threw
        ELSE Sends(data @@ ("err" :> ErrRecord("XSS Report", when, RequestUrl(xss))))

\* Expect-CT
HandleExpectCt(body, data, when) ==
    Sends(data @@ ("err" :> ErrRecord("Expect-CT", when,
                                      Tmpl(body["expect-ct-report"], "hostname"))))

\* A slip the unknown path could make: an err field for a report no
\* normaliser took.
HandleUnknownWithErr(body, data, when) ==
    Sends(data @@ ("err" :> ErrRecord("Unknown", when, Tmpl(body, "type"))))

\* Unknown - log more info
HandleUnknown(body, data, when) == Sends(data)

\* function handleReport(body, ua, ip), when being +(new Date()).
HandleReport(body, ua, ip, when) ==
    LET data == BaseData(ua, ip, when)
    IN  IF TypeOf(body) = "csp" \/ Has(body, "csp-report")
        THEN HandleCsp(body, data, when)
        ELSE IF TypeOf(body) = "network-error" THEN HandleNel(body, data, when)
        ELSE IF TypeOf(body) = "deprecation"
        THEN HandleDeprecation(body, data, when)
        ELSE IF TypeOf(body) = "intervention"
        THEN HandleOneField(body, data, when, "Intervention", "id")
        ELSE IF TypeOf(body) = "crash"
        THEN HandleOneField(body, data, when, "Crash", "reason")
        ELSE IF TypeOf(body) = "feature-policy-violation"
        THEN HandleOneField(body, data, when, "Feature Policy Violation",
                            "policyId")
        ELSE IF Has(body, "xss-report") THEN HandleXss(body, data, when)
        ELSE IF Has(body, "expect-ct-report")
        THEN HandleExpectCt(body, data, when)
        ELSE HandleUnknown(body, data, when)

\* ------------------------------------------------------------------------
\* Reports the normaliser is run on
\* ------------------------------------------------------------------------
Wss == <<"w", "s", "s", ":", "/", "/">>
EvilCom == <<"e", "v", "i", "l", ".", "c", "o", "m">>
SiteCom == <<"s", "i", "t", "e", ".", "c", "o", "m">>
PathX == <<"/", "p", "a", "t", "h", "/", "x">>
Inline == <<"i", "n", "l", "i", "n", "e">>
ScriptSrc == <<"s", "c", "r", "i", "p", "t", "-", "s", "r", "c">>
ImgSrc == <<"i", "m", "g", "-", "s", "r", "c">>
ScriptSrcSelf == ScriptSrc \o <<" ", "'", "s", "e", "l", "f", "'">>
DocUri == Https \o SiteCom \o <<"/", "a">>

\* What follows the host: nothing, a path, a query holding another URL.
UrlTails ==
    {<<>>, PathX,
     <<"/", "?", "u", "=">> \o Http \o <<"x">>,
     <<"/", "?", "r", "=">> \o Https \o <<"y">>}

Urls ==
    {scheme \o EvilCom \o tail : scheme \in {<<>>, Http, Https, Wss},
                                 tail \in UrlTails}
    \cup {Inline}

\* The object {f: v} when present, {} otherwise.
Opt(present, f, v) == IF present THEN f :> v ELSE EmptyObj

CspObjects ==
    {Opt(doc, "document-uri", DocUri) @@ b @@
     Opt(eff, "effective-directive", ImgSrc) @@
     Opt(viol, "violated-directive", ScriptSrcSelf) :
        doc \in BOOLEAN, eff \in BOOLEAN, viol \in BOOLEAN,
        b \in {EmptyObj} \cup {"blocked-uri" :> u : u \in Urls}}

NelObject ==
    ("type" :> <<"t", "c", "p", ".", "r", "e", "s", "e", "t">>) @@
    ("protocol" :> <<"h", "2">>) @@ ("method" :> <<"G", "E", "T">>) @@
    ("status_code" :> 0)

DeprecationObjects ==
    {("id" :> <<"w", "e", "b", "s", "q", "l">>) @@
     Opt(r, "anticipatedRemoval", <<"2", "0", "2", "0">>) : r \in BOOLEAN}

\* A report of the Reporting API: {type, url, body}, url and body optional.
Typed(type, hasUrl, b) == ("type" :> type) @@ Opt(hasUrl, "url", DocUri) @@ b

TypedBodies(type) ==
    CASE type = "csp" -> CspObjects
      [] type = "network-error" -> {NelObject}
      [] type = "deprecation" -> DeprecationObjects
      [] type = "intervention" -> {"id" :> <<"a", "d">>, EmptyObj}
      [] type = "crash" -> {"reason" :> <<"o", "o", "m">>, EmptyObj}
      [] type = "feature-policy-violation" -> {"policyId" :> <<"g", "e", "o">>}
      [] OTHER -> {"id" :> <<"n", "e", "w">>}

RecognizedTypes ==
    {"csp", "network-error", "deprecation", "intervention", "crash",
     "feature-policy-violation"}

MarkerFields == {"csp-report", "xss-report", "expect-ct-report"}

TypedReports ==
    UNION {{Typed(type, hasUrl, Opt(TRUE, "body", b)) :
               hasUrl \in BOOLEAN, b \in TypedBodies(type)}
           \cup {Typed(type, TRUE, EmptyObj)} :
           type \in RecognizedTypes \cup {"totally-new-kind"}}

XssObjects == {EmptyObj} \cup {"request-url" :> u : u \in Urls}

LegacyReports ==
    {"csp-report" :> c : c \in CspObjects}
    \cup {"xss-report" :> x : x \in XssObjects}
    \cup {"expect-ct-report" :> ct : ct \in {"hostname" :> EvilCom, EmptyObj}}

\* A typed report that also carries a legacy marker field.
MixedReports ==
    {Typed(type, TRUE, Opt(TRUE, "body", b)) @@ m :
        type \in {"network-error", "crash", "totally-new-kind"},
        b \in {NelObject},
        m \in {"csp-report" :> (("blocked-uri" :> EvilCom) @@
                                ("violated-directive" :> ImgSrc)),
               "xss-report" :> ("request-url" :> EvilCom),
               "expect-ct-report" :> ("hostname" :> EvilCom)}}

NormReports == TypedReports \cup LegacyReports \cup MixedReports \cup {EmptyObj}

\* ------------------------------------------------------------------------
\* The server: POST /report/:apiKey
\* ------------------------------------------------------------------------
VARIABLES
    apps,        \* let apps = {}: the own fields of the session cache
    defaultApp,  \* the app the mpulse module's own sendBeacon sends with
    initCount,   \* history: how often mPulse.init ran for each key
    cur,         \* the request whose handler runs or ran last
    sent,        \* beacons cur's handler handed to mPulse.sendBeacon
    failed,      \* positions in sent whose delivery failed
    now,         \* the clock +(new Date()) reads
    nreport,     \* normaliser run: the report handleReport is given
    nphase       \* normaliser run: "input", then "sent" or "threw"

vars ==
    <<apps, defaultApp, initCount, cur, sent, failed, now, nreport, nphase>>

\* require("./apps.json"): API key -> REST API secret key.
appLookup == ("keyA" :> "secretA") @@ ("keyB" :> "secretB")

\* Fields every JavaScript object inherits from Object.prototype; reading
\* one of them from {} or from a parsed JSON object gives a function.
ObjectPrototypeKeys == {"constructor"}

\* The :apiKey a request can carry: two known keys, an unknown one, none,
\* and the name of an inherited field.
ApiKeys == {"keyA", "keyB", "nokey", "", "constructor"}

\* !!obj[k] for a plain object obj whose own fields hold truthy values.
Lookup(obj, k) == k \in DOMAIN obj \/ k \in ObjectPrototypeKeys

UserAgent == "Mozilla/5.0"
PeerIp == "198.51.100.7"

\* request.headers["x-forwarded-for"] || request.ip
ClientIp(xff) == IF xff # "" THEN xff ELSE PeerIp

\* The reports a request body is made of: a well-formed crash report, a
\* report of an unknown kind, and a CSP report without blocked-uri.
CrashReport == Typed("crash", TRUE, "body" :> ("reason" :> <<"o", "o", "m">>))
UnknownReport == Typed("totally-new-kind", TRUE, EmptyObj)
MalformedCsp == "csp-report" :> ("violated-directive" :> ImgSrc)

ServerReports == {CrashReport, UnknownReport, MalformedCsp}

RECURSIVE SeqsUpTo(_, _)
SeqsUpTo(S, n) ==
    IF n = 0 THEN {<<>>}
    ELSE LET shorter == SeqsUpTo(S, n - 1)
         IN  shorter \cup {Append(q, x) : q \in shorter, x \in S}

\* request.body: nothing (undefined, null, ""), one report object, or an
\* array of reports.
NoBody == [kind |-> "none", items |-> <<>>]

Bodies ==
    {NoBody}
    \cup {[kind |-> "object", items |-> <<r>>] : r \in ServerReports}
    \cup {[kind |-> "array", items |-> q] : q \in SeqsUpTo(ServerReports, MaxBatch)}

\* The reports the handler passes to handleReport, in order: the elements of
\* an array body, the body itself otherwise.
Items(body) == body.items

NoApp == [apiKey |-> "", secret |-> "", serial |-> 0]

\* mPulse.init(apiKey, restApiSecretKey, {ua: "report-uri-mpulse"})
MPulseInit(apiKey, restApiSecretKey, serial) ==
    [apiKey |-> apiKey, secret |-> restApiSecretKey, serial |-> serial]

\* The x-forwarded-for header of a request: absent, or an address.
ForwardedFor == {"", "203.0.113.9"}

Idle ==
    [st |-> "idle", apiKey |-> "", body |-> NoBody, xff |-> "", i |-> 0,
     reportsHandled |-> 0, reply |-> EmptyObj]

\* reply.send(new Error(msg))
ErrorReply(msg) == "error" :> msg

\* reply.send({success: true, handled: reportsHandled})
SuccessReply(reportsHandled) == ("success" :> TRUE) @@ ("handled" :> reportsHandled)

\* mPulse.sendBeacon(data): the module's own function, which sends with the
\* module's default app, the one the latest mPulse.init made.
SendBeacon(data) == Append(sent, [data |-> data, via |-> defaultApp])

Init ==
    /\ apps = EmptyObj
    /\ defaultApp = NoApp
    /\ initCount = [k \in ApiKeys |-> 0]
    /\ cur = Idle
    /\ sent = <<>>
    /\ failed = {}
    /\ now = 0
    /\ nreport = EmptyObj
    /\ nphase = "off"

RECURSIVE SumOver(_, _)
SumOver(f, S) ==
    IF S = {} THEN 0
    ELSE LET x == CHOOSE y \in S : TRUE IN f[x] + SumOver(f, S \ {x})

\* The handler up to "let reportsHandled = 0": input validation and app
\* initialization, for a request with :apiKey k and the given body, coming
\* without x-forwarded-for header.  The
\* handler is synchronous, so Node runs it to its end before it starts the
\* handler of another request: requests in flight together are handled as
\* whole runs, in any order.
Begin(k, body) ==
    /\ cur.st \in {"idle", "done"}
    /\ sent' = <<>>
    /\ failed' = {}
    /\ LET rejected(msg) ==
               /\ cur' = [Idle EXCEPT !.st = "done", !.apiKey = k, !.body = body,
                                      !.reply = ErrorReply(msg)]
               /\ UNCHANGED <<apps, defaultApp, initCount>>
       IN  IF body.kind = "none" THEN rejected("No Request body")
           ELSE IF k = "" THEN rejected("No API Key specified")
           ELSE IF ~Lookup(appLookup, k) THEN rejected("Unknown API key")
           ELSE /\ cur' = [Idle EXCEPT !.st = "loop", !.apiKey = k, !.body = body]
                /\ IF ~Lookup(apps, k)
                   THEN LET app == MPulseInit(k, appLookup[k],
                                              SumOver(initCount, ApiKeys) + 1)
                        IN  /\ apps' = apps @@ (k :> app)
                            /\ defaultApp' = app
                            /\ initCount' = [initCount EXCEPT ![k] = @ + 1]
                   ELSE UNCHANGED <<apps, defaultApp, initCount>>
    /\ UNCHANGED <<now, nreport, nphase>>

\* A slip the loop bound could make: the last report is left out.
LoopGoesOnOffByOne(i, body) == i < Len(Items(body)) - 1

\* for (let i = 0; i < body.length; i++): the loop goes on.
LoopGoesOn(i, body) == i < Len(Items(body))

\* One call handleReport(body[i], ua, ip) and reportsHandled++; a TypeError
\* thrown by handleReport leaves the handler.
HandleStep ==
    /\ cur.st = "loop"
    /\ LoopGoesOn(cur.i, cur.body)
    /\ LET r == HandleReport(Items(cur.body)[cur.i + 1], UserAgent,
                             ClientIp(cur.xff), now)
       IN  IF r.threw
           THEN /\ cur' = [cur EXCEPT !.st = "done",
                                      !.reply = ErrorReply("TypeError")]
                /\ UNCHANGED sent
           ELSE /\ sent' = SendBeacon(r.data)
                /\ cur' = [cur EXCEPT !.i = @ + 1, !.reportsHandled = @ + 1]
    /\ UNCHANGED <<apps, defaultApp, initCount, failed, now, nreport, nphase>>

\* A slip the handler could make: the reply inside the loop, sent before
\* the batch is through.
AfterLoopAnytime(i, body) == i >= 0

\* The loop is over: the handler goes on to its last statement.
AfterLoop(i, body) == ~LoopGoesOn(i, body)

\* return reply.send({success: true, handled: reportsHandled})
Reply ==
    /\ cur.st = "loop"
    /\ AfterLoop(cur.i, cur.body)
    /\ cur' = [cur EXCEPT !.st = "done", !.reply = SuccessReply(cur.reportsHandled)]
    /\ UNCHANGED <<apps, defaultApp, initCount, sent, failed, now, nreport,
                   nphase>>

\* The backend does not take a beacon.  mPulse.sendBeacon was given no
\* callback and its result is not read; nothing runs while a handler does.
DeliveryFails(j) ==
    /\ cur.st = "done"
    /\ j \in (1..Len(sent)) \ failed
    /\ failed' = failed \cup {j}
    /\ UNCHANGED <<apps, defaultApp, initCount, cur, sent, now, nreport, nphase>>

\* Time passes.
Tick ==
    /\ now < MaxTime
    /\ now' = now + 1
    /\ UNCHANGED <<apps, defaultApp, initCount, cur, sent, failed, nreport,
                   nphase>>

Next ==
    \/ \E k \in ApiKeys, body \in Bodies : Begin(k, body)
    \/ HandleStep
    \/ Reply
    \/ \E j \in 1..Len(sent) : DeliveryFails(j)
    \/ Tick

Spec == Init /\ [][Next]_vars

\* ------------------------------------------------------------------------
\* The normaliser alone: handleReport run once on each report of NormReports
\* ------------------------------------------------------------------------
NormInit ==
    /\ apps = EmptyObj
    /\ defaultApp = NoApp
    /\ initCount = [k \in ApiKeys |-> 0]
    /\ cur \in {[Idle EXCEPT !.xff = xff] : xff \in ForwardedFor}
    /\ sent = <<>>
    /\ failed = {}
    /\ now \in 0..MaxTime
    /\ nreport \in NormReports
    /\ nphase = "input"

\* handleReport(nreport, ua, ip), ip taken from the headers as the route does.
NormHandle ==
    /\ nphase = "input"
    /\ LET r == HandleReport(nreport, UserAgent, ClientIp(cur.xff), now)
       IN  IF r.threw
           THEN nphase' = "threw" /\ UNCHANGED sent
           ELSE nphase' = "sent" /\ sent' = SendBeacon(r.data)
    /\ UNCHANGED <<apps, defaultApp, initCount, cur, failed, now, nreport>>

NormNext == NormHandle

SpecNorm == NormInit /\ [][NormNext]_vars

\* ------------------------------------------------------------------------
\* Properties
\* ------------------------------------------------------------------------

\* The number of reports in a request body, and the j-th of them.
NumReports(body) == IF body.kind = "array" THEN Len(body.items) ELSE 1
ReportAt(body, j) == body.items[j]

SuccessSent(c) == c.st = "done" /\ Has(c.reply, "success")
Accepted(c) == c.body.kind # "none" /\ c.apiKey \in DOMAIN appLookup

BaseFields == {"rt.tstart", "rt.end", "http.initiator", "ua", "ip"}

\* The beacon handleReport builds for report r at the time beacon b carries.
BeaconOf(c, r, b) ==
    HandleReport(r, UserAgent, ClientIp(c.xff), b.data["rt.tstart"])

Malformed(r) == HandleReport(r, UserAgent, PeerIp, 0).threw

\* C2: a malformed report of a recognized kind never aborts the batch: an
\* accepted request whose array holds one beside other reports still ends
\* with the success response counting all elements, every other element
\* having been normalized and handed to the sender.
C2_MalformedNeverAborts ==
    (/\ cur.st = "done"
     /\ Accepted(cur)
     /\ cur.body.kind = "array"
     /\ \E j \in 1..NumReports(cur.body) : Malformed(ReportAt(cur.body, j))
     /\ \E j \in 1..NumReports(cur.body) : ~Malformed(ReportAt(cur.body, j)))
    => /\ Has(cur.reply, "success")
       /\ cur.reply["handled"] = NumReports(cur.body)
       /\ \A j \in 1..NumReports(cur.body) :
             ~Malformed(ReportAt(cur.body, j)) =>
                \E n \in 1..Len(sent) :
                    sent[n].data = BeaconOf(cur, ReportAt(cur.body, j), sent[n]).data

\* The request has no body, no API key, or an API key that is not in the
\* credential table.
MustBeRejected(c) ==
    \/ c.body.kind = "none"
    \/ c.apiKey = ""
    \/ c.apiKey \notin DOMAIN appLookup

\* C3: a request without body, without API key, or with an API key that is
\* not in the credential table ends with an error response that carries no
\* handled count; no report of it is normalized, no beacon handed to the
\* sender, no session created; the cache holds credential-table keys only.
C3_RequestLevelErrors ==
    /\ [](DOMAIN apps \subseteq DOMAIN appLookup)
    /\ []((cur.st # "idle" /\ MustBeRejected(cur)) =>
             /\ cur.st = "done"
             /\ Has(cur.reply, "error")
             /\ ~Has(cur.reply, "handled")
             /\ cur.i = 0
             /\ sent = <<>>)
    /\ [][(cur' # cur /\ MustBeRejected(cur')) =>
             (apps' = apps /\ initCount' = initCount)]_vars

\* The report matches no kind: its type is none of the
\* six and it has none of the three marker fields.
IsUnknown(r) ==
    TypeOf(r) \notin RecognizedTypes /\ \A f \in MarkerFields : ~Has(r, f)

\* C4: a report that matches no kind raises no error and still has a beacon
\* handed to the sender, holding the base context fields only (rt.tstart,
\* rt.end, http.initiator, ua, ip), neither u nor err; and every beacon of a
\* report of a recognized kind carries err.
C4_UnknownKindSendsBaseOnly ==
    nphase \in {"sent", "threw"} =>
        /\ IsUnknown(nreport) =>
              /\ nphase = "sent"
              /\ Len(sent) = 1
              /\ DOMAIN sent[1].data = BaseFields
              /\ sent[1].data["rt.tstart"] = now
              /\ sent[1].data["rt.end"] = now
              /\ sent[1].data["http.initiator"] = "error"
              /\ sent[1].data["ua"] = UserAgent
              /\ sent[1].data["ip"] = (IF cur.xff = "" THEN PeerIp ELSE cur.xff)
        /\ (~IsUnknown(nreport) /\ nphase = "sent") => Has(sent[1].data, "err")

\* C4's case: {"type": "totally-new-kind", ...} went through handleReport.
C4_Witness ==
    /\ nphase = "sent"
    /\ TypeOf(nreport) = "totally-new-kind"
    /\ IsUnknown(nreport)
    /\ DOMAIN sent[1].data = BaseFields

\* The title each recognized type stands for.
TitleOfType(type) ==
    CASE type = "csp" -> "Content Security Policy"
      [] type = "network-error" -> "Network Error Logging"
      [] type = "deprecation" -> "Deprecation"
      [] type = "intervention" -> "Intervention"
      [] type = "crash" -> "Crash"
      [] type = "feature-policy-violation" -> "Feature Policy Violation"

\* C5: the type discriminator comes first and the legacy marker fields
\* count only when the type selects no kind: a report whose type names a
\* recognized kind is normalized as that kind, whatever marker field it
\* also carries.
C5_TypeBeforeMarkers ==
    (nphase = "sent" /\ TypeOf(nreport) \in RecognizedTypes) =>
        /\ Has(sent[1].data, "err")
        /\ sent[1].data["err"][1].t = TitleOfType(TypeOf(nreport))

\* C6: mPulse.init runs at most once per API key, a key's session, once in
\* the cache, is neither replaced nor removed (so the cache holds exactly
\* the keys initialized once, each with its own session), and every
\* request for a key of the credential table that has a body succeeds.
C6_InitOnceAndSucceeds ==
    /\ \A k \in ApiKeys :
          /\ initCount[k] <= 1
          /\ (initCount[k] = 1) <=> (k \in DOMAIN apps)
          /\ k \in DOMAIN apps => apps[k].apiKey = k
    /\ (cur.st = "done" /\ Accepted(cur)) => Has(cur.reply, "success")

\* C7: the success response is sent only once every report of the batch has
\* been normalized and handed to the sender; a delivery failure changes no
\* response, and the caller whose batch was handed over whole has the
\* success response with the handled count whatever became of the beacons.
C7_ReplyAfterHandoffOnly ==
    /\ [][(SuccessSent(cur') /\ ~SuccessSent(cur)) =>
            (/\ cur.i = NumReports(cur.body)
             /\ Len(sent) = NumReports(cur.body)
             /\ sent' = sent)]_vars
    /\ [][(failed' \ failed) # {} => cur' = cur]_vars
    /\ []((failed # {} /\ Len(sent) = NumReports(cur.body)) =>
            (SuccessSent(cur) /\ cur.reply["handled"] = NumReports(cur.body)))

\* C7's case: a batch of two answered with success, a beacon of it lost.
C7_Witness ==
    /\ SuccessSent(cur)
    /\ cur.reply["handled"] = 2
    /\ Len(sent) = 2
    /\ failed # {}

\* C8: every beacon made while handling a request for API key K is sent
\* with the session of K.
C8_BeaconUsesOwnSession ==
    (cur.st # "idle" /\ cur.apiKey \in DOMAIN appLookup) =>
        \A j \in 1..Len(sent) :
            /\ cur.apiKey \in DOMAIN apps
            /\ sent[j].via = apps[cur.apiKey]

\* The text before the first occurrence of ch, the whole text without one.
CutAtFirst(s, ch) == IF IndexOf(s, ch) = -1 THEN s ELSE SubSeq(s, 1, IndexOf(s, ch))

\* The length of the scheme a URL starts with, "://" included, and 0 for a
\* text that starts with none.
LeadingSchemeLen(s) ==
    LET i == IndexOf(s, <<":", "/", "/">>)
    IN  IF i > 0 /\ \A j \in 1..i : s[j] \notin {"/", ":", "?", "=", " ", "'"}
        THEN i + 3 ELSE 0

StripLeadingScheme(s) == SubSeq(s, LeadingSchemeLen(s) + 1, Len(s))

\* The same for the two schemes of the web alone.
StartsWith(s, p) == Len(s) >= Len(p) /\ SubSeq(s, 1, Len(p)) = p

StripLeadingHttp(s) ==
    IF StartsWith(s, Http) THEN SubSeq(s, Len(Http) + 1, Len(s))
    ELSE IF StartsWith(s, Https) THEN SubSeq(s, Len(Https) + 1, Len(s))
    ELSE s

\* A CSP report by its type or by its marker field, and the object holding
\* its fields.
IsCspReport(r) ==
    \/ TypeOf(r) = "csp" /\ (Has(r, "csp-report") \/ Has(r, "body"))
    \/ TypeOf(r) \notin RecognizedTypes /\ Has(r, "csp-report")

CspOf(r) == IF Has(r, "csp-report") THEN r["csp-report"] ELSE r["body"]

\* C9: for a CSP report with a blocked-uri and a directive the beacon's u is
\* document-uri and the message is "<directive>: <blockedHost>": directive
\* is effective-directive when present, else violated-directive, cut at its
\* first space; blockedHost is blocked-uri without its scheme, whatever the
\* scheme, cut at the first "/" after the host.
C9_CspMessage ==
    (/\ nphase \in {"sent", "threw"}
     /\ IsCspReport(nreport)
     /\ Has(CspOf(nreport), "blocked-uri")
     /\ Has(CspOf(nreport), "effective-directive")
        \/ Has(CspOf(nreport), "violated-directive"))
    => LET csp == CspOf(nreport)
           directive == IF Has(csp, "effective-directive")
                        THEN csp["effective-directive"]
                        ELSE csp["violated-directive"]
       IN  /\ nphase = "sent"
           /\ Has(csp, "document-uri") => sent[1].data["u"] = csp["document-uri"]
           /\ sent[1].data["err"][1].m =
                  CutAtFirst(directive, " ") \o <<":", " ">> \o
                  CutAtFirst(StripLeadingScheme(csp["blocked-uri"]), "/")

\* An XSS report: the xss-report marker, no type or marker that comes first.
IsXssReport(r) ==
    /\ Has(r, "xss-report")
    /\ TypeOf(r) \notin RecognizedTypes
    /\ ~Has(r, "csp-report")

\* C10: for an XSS report the beacon has no u and its message is request-url
\* without its leading http:// or https:// and otherwise unchanged: what
\* follows the leading scheme, a later "http://" included, is kept.
C10_XssMessage ==
    (/\ nphase \in {"sent", "threw"}
     /\ IsXssReport(nreport)
     /\ Has(nreport["xss-report"], "request-url"))
    => /\ nphase = "sent"
       /\ ~Has(sent[1].data, "u")
       /\ sent[1].data["err"][1].m =
              StripLeadingHttp(nreport["xss-report"]["request-url"])

====
